---- MODULE Spec2Model ----
(***************************************************************************)
(* Model of the AWAKE electron-spectrometer magnet scripts                 *)
(* spectrometer_dipole.py and spectrometer_quadrupole.py.                  *)
(*                                                                         *)
(* One run of one script is one behaviour: the module-level login, the     *)
(* argparse parse, the dispatch in __main__, and the selected procedure,   *)
(* one step per japc.getParam / japc.setParam call.  The power converter   *)
(* and the display array belong to the control system: every read returns  *)
(* a value the model chooses freely.  Every device call is appended to     *)
(* log, in the order the script issues it.                                 *)
(***************************************************************************)
EXTENDS Integers, Sequences, FiniteSets, TLC

VARIABLES
    script,             \* which of the two files is run
    argv,               \* the options given on the command line
    arguments,          \* the namespace parse_args returns
    session,            \* TRUE once rbacLogin / rbacGetToken have run
    proc,               \* the function being executed
    pc,                 \* position inside proc
    outcome,            \* how the run ended, "running" until then
    log,                \* the japc.getParam / japc.setParam calls issued
    elog,               \* the events posted to the logbook
    pc_status,          \* local pc_status of the turn-on procedures
    check_state,        \* local check_state
    current_set,        \* local current_set
    ramp_duration_set,  \* local ramp_duration_set (dipole)
    var_vec,            \* local var_vec (quadrupole)
    energy,             \* argument of energy_to_current
    current,            \* parameter current of the procedure called
    ramp_duration,      \* parameter ramp_duration of dipole_turn_on
    calls,              \* the functions __main__ has called, in order
    meas_signal,        \* which of the MEAS.I signals the converter shows
    timesteps,          \* local timesteps of current_plot
    current_array,      \* local current_array of current_plot
    mean_val            \* local mean_val of current_plot

vars == <<script, argv, arguments, session, proc, pc, outcome, log, elog,
          pc_status, check_state, current_set, ramp_duration_set, var_vec,
          energy, current, ramp_duration, calls,
          meas_signal, timesteps, current_array, mean_val>>

(***************************************************************************)
(* Bounds of the model.                                                    *)
(***************************************************************************)
\* entries of the display array beyond the one the scripts overwrite
DisplayTail == 2
\* the display array read is one of the arrays ArrayOf(0) .. ArrayOf(MaxArraySeed)
MaxArraySeed == 1
\* energies 0 .. MaxEnergy GeV are given to energy_to_current on its own
MaxEnergy == 1300
\* MEAS.I shows one of the signals Reading(0, _) .. Reading(MaxSignalSeed, _)
MaxSignalSeed == 2

(***************************************************************************)
(* Numbers.  A float is modelled as the exact decimal                      *)
(*      A + f8 * 10^-8 + f17 * 10^-17       0 <= f8 < 10^8, 0 <= f17 < 10^9 *)
(* so that the quadratic of energy_to_current, whose constant term is      *)
(* 3.565e-14, is computed exactly and within 32-bit integers.              *)
(***************************************************************************)
Num(n) == [A |-> n, f8 |-> 0, f17 |-> 0]

NumGT(x, y) ==
    \/ x.A > y.A
    \/ x.A = y.A /\ x.f8 > y.f8
    \/ x.A = y.A /\ x.f8 = y.f8 /\ x.f17 > y.f17

NumLE(x, y) == ~NumGT(x, y)

(***************************************************************************)
(* Command-line values.  An option is absent, a numeric literal or a text  *)
(* float() cannot parse.                                                   *)
(***************************************************************************)
None      == [kind |-> "none", n |-> 0]
Literal(n) == [kind |-> "num", n |-> n]
Text      == [kind |-> "text", n |-> 0]

\* float(x): the exception raised, or "ok"
float_raises(x) ==
    CASE x.kind = "none" -> "TypeError"
      [] x.kind = "text" -> "ValueError"
      [] OTHER           -> "ok"

float(x) == Num(x.n)

(***************************************************************************)
(* energy_to_current: a * energy**2 + b * energy + c with a = 2.974e-5,    *)
(* b = 2.647e-1, c = 3.565e-14, replaced by 362 when it exceeds 362.       *)
(* energy_use, the MeV value, is computed and never used.                  *)
(***************************************************************************)
\* a in units of 10^-8
a_e8 == 2974
\* b in units of 10^-4
b_e4 == 2647
\* c in units of 10^-17
c_e17 == 3565
\* the largest current the quadrupoles take
MaxCurrent == 362

\* a * e**2 + b * e + c for an integer e, exactly
Quadratic(e) ==
    LET p   == a_e8 * e                      \* a * e           in 10^-8
        ph  == p \div 10000
        pl  == p % 10000
        u4  == b_e4 * e + ph * e             \* b*e + part of a*e*e, in 10^-4
        v8  == pl * e                        \* rest of a*e*e,  in 10^-8
        u4n == u4 + (v8 \div 10000)
    IN  [A   |-> u4n \div 10000,
         f8  |-> (u4n % 10000) * 10000 + (v8 % 10000),
         f17 |-> c_e17]

\* the function without its comparison against 362
energy_to_current_unclamped(e) ==
    Quadratic(e)

energy_to_current(e) ==
    LET energy_use == e * 1000
        raw        == Quadratic(e)
    IN  IF NumGT(raw, Num(MaxCurrent)) THEN Num(MaxCurrent) ELSE raw

(***************************************************************************)
(* The control system.                                                     *)
(***************************************************************************)
DipoleDev  == "RPPEF.BB4.RBIH.412435"
QuadDev    == "RPADA.BB4.RQNI.412432"
DisplayDev == "TSG41.AWAKE-GUI-SUPPORT"

Dev == IF script = "dipole" THEN DipoleDev ELSE QuadDev

\* the values STATE['PC'] can hold
PCStates == {"OFF", "ON_STANDBY", "IDLE", "ARMED", "RUNNING", "UNKNOWN"}

\* index of the quadrupole setpoint in the display array
SetpointIndex == 67

DisplayLen == SetpointIndex + 1 + DisplayTail

ArrayOf(k) == [i \in 0 .. DisplayLen - 1 |-> Num((i * k + k) % 5)]

\* the arrays ValueAcquisition#floatValue can return
DisplayArrays == { ArrayOf(k) : k \in 0 .. MaxArraySeed }

\* a value the script only prints
Opaque == "-"

Get(dev, field, val) == [op |-> "getParam", dev |-> dev, field |-> field, val |-> val]
Set(dev, field, val) == [op |-> "setParam", dev |-> dev, field |-> field, val |-> val]

getParam(dev, field, val) == log' = Append(log, Get(dev, field, val))
setParam(dev, field, val) == log' = Append(log, Set(dev, field, val))

NoState == [PC |-> "none"]
NoNum   == Num(0)
NoVec   == << >>

(***************************************************************************)
(* Command lines.                                                          *)
(***************************************************************************)
ModeArgs    == {"None", "on", "off", "plot", "change"}
CurrentArgs == {None, Text, Literal(-5), Literal(100), Literal(362), Literal(500)}
RampArgs    == {None, Text, Literal(-1), Literal(0), Literal(5)}
EnergyArgs  == {None, Text, Literal(-1), Literal(400), Literal(1300)}

CommandLines(s) ==
    IF s = "dipole"
    THEN [mode : ModeArgs, current : CurrentArgs, ramp_duration : RampArgs, energy : {None}]
    ELSE [mode : ModeArgs, current : CurrentArgs, ramp_duration : {None}, energy : EnergyArgs]

NoArguments == [mode |-> "None", current |-> None, ramp_duration |-> None, energy |-> None]

Init ==
    /\ script \in {"dipole", "quadrupole"}
    /\ argv \in CommandLines(script)
    /\ arguments = NoArguments
    /\ session = FALSE
    /\ proc = "module"
    /\ pc = "login"
    /\ outcome = "running"
    /\ log = << >>
    /\ elog = << >>
    /\ pc_status = NoState
    /\ check_state = NoState
    /\ current_set = NoNum
    /\ ramp_duration_set = NoNum
    /\ var_vec = NoVec
    /\ energy = NoNum
    /\ current = NoNum
    /\ ramp_duration = NoNum
    /\ calls = << >>
    /\ meas_signal \in (IF argv.mode = "plot" THEN 0 .. MaxSignalSeed ELSE {0})
    /\ timesteps = 0
    /\ current_array = << >>
    /\ mean_val = NoNum

locals == <<pc_status, check_state, current_set, ramp_duration_set, var_vec,
           timesteps, current_array, mean_val>>
plot   == <<timesteps, current_array, mean_val>>
params == <<energy, current, ramp_duration, calls>>
cli    == <<script, argv, arguments, session, meas_signal>>

\* the run ends: by return, by parser.error, or by an uncaught exception
Finish(how) ==
    /\ outcome' = how
    /\ pc' = "done"

Goto(p, l) ==
    /\ proc' = p
    /\ pc' = l
    /\ outcome' = outcome

(***************************************************************************)
(* Module level: the login both scripts perform on import.                 *)
(***************************************************************************)
japc_login ==
    /\ pc = "login"
    /\ session' = TRUE
    /\ Goto("__main__", "parse_args")
    /\ UNCHANGED <<script, argv, meas_signal, arguments, log, elog, locals, params>>

\* the choices of --mode
ModeChoices(s) ==
    IF s = "dipole" THEN {"on", "off", "plot"} ELSE {"on", "off", "plot", "change"}

\* the default of --ramp_duration
DefaultRampDuration == 15

parse_args ==
    /\ pc = "parse_args"
    /\ IF argv.mode # "None" /\ argv.mode \notin ModeChoices(script)
       THEN /\ Finish("usage_error")
            /\ UNCHANGED <<proc, arguments>>
       ELSE /\ arguments' =
                [mode          |-> argv.mode,
                 current       |-> argv.current,
                 ramp_duration |-> IF script = "dipole" /\ argv.ramp_duration = None
                                   THEN Literal(DefaultRampDuration)
                                   ELSE argv.ramp_duration,
                 energy        |-> argv.energy]
            /\ Goto("__main__", "dispatch")
    /\ UNCHANGED <<script, argv, meas_signal, session, log, elog, locals, params>>

(***************************************************************************)
(* spectrometer_dipole.py, __main__                                        *)
(***************************************************************************)
\* the condition under which the dipole script calls parser.error
dipole_usage_error(args) ==
    \/ args.mode = "on" /\ args.current = None
    \/ args.ramp_duration = None

\* __main__ calls function p
Call(p) ==
    /\ Goto(p, "begin")
    /\ calls' = Append(calls, p)

dipole_main ==
    /\ script = "dipole"
    /\ pc = "dispatch"
    /\ IF arguments.mode = "off"
       THEN Call("dipole_turn_off") /\ UNCHANGED <<energy, current, ramp_duration>>
       ELSE IF arguments.mode = "plot"
       THEN Call("current_plot") /\ UNCHANGED <<energy, current, ramp_duration>>
       ELSE IF dipole_usage_error(arguments)
       THEN Finish("usage_error") /\ UNCHANGED <<proc, params>>
       ELSE IF float_raises(arguments.current) # "ok"
       THEN Finish(float_raises(arguments.current)) /\ UNCHANGED <<proc, params>>
       ELSE IF float_raises(arguments.ramp_duration) # "ok"
       THEN Finish(float_raises(arguments.ramp_duration)) /\ UNCHANGED <<proc, params>>
       ELSE /\ current' = float(arguments.current)
            /\ ramp_duration' = float(arguments.ramp_duration)
            /\ Call("dipole_turn_on")
            /\ UNCHANGED energy
    /\ UNCHANGED <<cli, log, elog, locals>>

(***************************************************************************)
(* spectrometer_quadrupole.py, __main__                                    *)
(***************************************************************************)
\* the test that lets --energy win whenever it is given
quadrupole_uses_energy_first(args) ==
    args.energy # None

\* the branches that take the current from --energy
quadrupole_uses_energy(args) ==
    args.current = None /\ args.energy # None

\* the branch without its comparison against 362
quadrupole_clamp_missing(x) ==
    float(x)

\* the current a branch of __main__ passes on, from --current
quadrupole_clamp(x) ==
    IF NumGT(float(x), Num(MaxCurrent)) THEN Num(MaxCurrent) ELSE float(x)

\* the body shared by the 'change' branch and the two turn-on branches
quadrupole_set(from_energy, args, target) ==
    IF from_energy
    THEN IF float_raises(args.energy) # "ok"
         THEN Finish(float_raises(args.energy)) /\ UNCHANGED <<proc, params>>
         ELSE /\ energy' = float(args.energy)
              /\ current' = energy_to_current(float(args.energy).A)
              /\ Goto(target, "begin")
              /\ calls' = calls \o <<"energy_to_current", target>>
              /\ UNCHANGED ramp_duration
    ELSE IF float_raises(args.current) # "ok"
         THEN Finish(float_raises(args.current)) /\ UNCHANGED <<proc, params>>
         ELSE /\ current' = quadrupole_clamp(args.current)
              /\ Call(target)
              /\ UNCHANGED <<energy, ramp_duration>>

quadrupole_main ==
    /\ script = "quadrupole"
    /\ pc = "dispatch"
    /\ IF arguments.mode = "off"
       THEN Call("quadrupole_turn_off") /\ UNCHANGED <<energy, current, ramp_duration>>
       ELSE IF arguments.mode = "plot"
       THEN Call("current_plot") /\ UNCHANGED <<energy, current, ramp_duration>>
       ELSE IF arguments.mode = "change"
       THEN quadrupole_set(quadrupole_uses_energy(arguments),
                           arguments, "change_current")
       ELSE quadrupole_set(arguments.mode = "on" /\ quadrupole_uses_energy(arguments),
                           arguments, "quadrupole_turn_on")
    /\ UNCHANGED <<cli, log, elog, locals>>

(***************************************************************************)
(* dipole_turn_off / quadrupole_turn_off                                   *)
(***************************************************************************)
\* the comparison written against a state name the converter never reports
already_off_lowercase(status) ==
    status.PC = "off"

\* the condition of the if in the turn-off procedures
already_off(status) ==
    status.PC = "OFF"

turn_off_check_state(name) ==
    /\ proc = name
    /\ pc = "begin"
    /\ \E s \in PCStates :
         /\ getParam(Dev, "STATE", [PC |-> s])
         /\ check_state' = [PC |-> s]
         /\ IF already_off(check_state')
            THEN Finish("return") /\ proc' = proc
            ELSE Goto(name, "off")
    /\ UNCHANGED <<cli, elog, pc_status, current_set, ramp_duration_set, var_vec, plot, params>>

turn_off_off(name) ==
    /\ proc = name
    /\ pc = "off"
    /\ setParam(Dev, "MODE.PC", "OFF")
    /\ Goto(name, "pc_state")
    /\ UNCHANGED <<cli, elog, locals, params>>

\* the turn-off that commands OFF again until the converter reports OFF
turn_off_pc_state_retrying(name) ==
    /\ proc = name
    /\ pc = "pc_state"
    /\ \E s \in PCStates :
         /\ getParam(Dev, "STATE", [PC |-> s])
         /\ IF s = "OFF"
            THEN Finish("return") /\ proc' = proc
            ELSE Goto(name, "off")
    /\ UNCHANGED <<cli, elog, locals, params>>

turn_off_pc_state(name) ==
    /\ proc = name
    /\ pc = "pc_state"
    /\ \E s \in PCStates : getParam(Dev, "STATE", [PC |-> s])
    /\ Finish("return") /\ proc' = proc
    /\ UNCHANGED <<cli, elog, locals, params>>

dipole_turn_off_check_state == turn_off_check_state("dipole_turn_off")
dipole_turn_off_off         == turn_off_off("dipole_turn_off")
dipole_turn_off_pc_state    == turn_off_pc_state("dipole_turn_off")

quadrupole_turn_off_check_state == turn_off_check_state("quadrupole_turn_off")
quadrupole_turn_off_off         == turn_off_off("quadrupole_turn_off")
quadrupole_turn_off_pc_state    == turn_off_pc_state("quadrupole_turn_off")

(***************************************************************************)
(* dipole_turn_on / quadrupole_turn_on: the bring-up both share            *)
(***************************************************************************)
\* the bring-up that switches off whatever the first read returned
turn_on_pc_status_always_off(name) ==
    /\ proc = name
    /\ pc = "begin"
    /\ \E s \in PCStates :
         /\ getParam(Dev, "STATE", [PC |-> s])
         /\ pc_status' = [PC |-> s]
         /\ Goto(name, "off")
    /\ UNCHANGED <<cli, elog, check_state, current_set, ramp_duration_set, var_vec, plot, params>>

turn_on_pc_status(name) ==
    /\ proc = name
    /\ pc = "begin"
    /\ \E s \in PCStates :
         /\ getParam(Dev, "STATE", [PC |-> s])
         /\ pc_status' = [PC |-> s]
         /\ IF s # "OFF" THEN Goto(name, "off") ELSE Goto(name, "standby")
    /\ UNCHANGED <<cli, elog, check_state, current_set, ramp_duration_set, var_vec, plot, params>>

turn_on_off(name) ==
    /\ proc = name
    /\ pc = "off"
    /\ setParam(Dev, "MODE.PC", "OFF")
    /\ Goto(name, "updated_status")
    /\ UNCHANGED <<cli, elog, locals, params>>

turn_on_updated_status(name) ==
    /\ proc = name
    /\ pc = "updated_status"
    /\ \E s \in PCStates : getParam(Dev, "STATE", [PC |-> s])
    /\ Goto(name, "standby")
    /\ UNCHANGED <<cli, elog, locals, params>>

turn_on_standby(name) ==
    /\ proc = name
    /\ pc = "standby"
    /\ setParam(Dev, "MODE.PC", "ON_STANDBY")
    /\ Goto(name, "idle")
    /\ UNCHANGED <<cli, elog, locals, params>>

turn_on_idle(name) ==
    /\ proc = name
    /\ pc = "idle"
    /\ setParam(Dev, "MODE.PC", "IDLE")
    /\ Goto(name, "pc_status")
    /\ UNCHANGED <<cli, elog, locals, params>>

turn_on_pc_status_idle(name, next) ==
    /\ proc = name
    /\ pc = "pc_status"
    /\ \E s \in PCStates :
         /\ getParam(Dev, "STATE", [PC |-> s])
         /\ pc_status' = [PC |-> s]
    /\ Goto(name, next)
    /\ UNCHANGED <<cli, elog, check_state, current_set, ramp_duration_set, var_vec, plot, params>>

dipole_turn_on_pc_status      == turn_on_pc_status("dipole_turn_on")
dipole_turn_on_off            == turn_on_off("dipole_turn_on")
dipole_turn_on_updated_status == turn_on_updated_status("dipole_turn_on")
dipole_turn_on_standby        == turn_on_standby("dipole_turn_on")
dipole_turn_on_idle           == turn_on_idle("dipole_turn_on")
dipole_turn_on_pc_status_idle == turn_on_pc_status_idle("dipole_turn_on", "func_type")

quadrupole_turn_on_pc_status      == turn_on_pc_status("quadrupole_turn_on")
quadrupole_turn_on_off            == turn_on_off("quadrupole_turn_on")
quadrupole_turn_on_updated_status == turn_on_updated_status("quadrupole_turn_on")
quadrupole_turn_on_standby        == turn_on_standby("quadrupole_turn_on")
quadrupole_turn_on_idle           == turn_on_idle("quadrupole_turn_on")
quadrupole_turn_on_pc_status_idle == turn_on_pc_status_idle("quadrupole_turn_on", "var_vec")

(***************************************************************************)
(* dipole_turn_on: function type, then the trim settings                   *)
(***************************************************************************)
dipole_turn_on_func_type ==
    /\ proc = "dipole_turn_on"
    /\ pc = "func_type"
    /\ setParam(Dev, "REF.FUNC.TYPE", "CTRIM")
    /\ Goto(proc, "func_type_readback")
    /\ UNCHANGED <<cli, elog, locals, params>>

dipole_turn_on_func_type_readback ==
    /\ proc = "dipole_turn_on"
    /\ pc = "func_type_readback"
    /\ getParam(Dev, "REF.FUNC.TYPE", Opaque)
    /\ current_set' = current
    /\ ramp_duration_set' = ramp_duration
    /\ Goto(proc, "trim_duration")
    /\ UNCHANGED <<cli, elog, pc_status, check_state, var_vec, plot, params>>

dipole_turn_on_trim_duration ==
    /\ proc = "dipole_turn_on"
    /\ pc = "trim_duration"
    /\ setParam(Dev, "REF.TRIM.DURATION", ramp_duration_set)
    /\ Goto(proc, "trim_final")
    /\ UNCHANGED <<cli, elog, locals, params>>

dipole_turn_on_trim_final ==
    /\ proc = "dipole_turn_on"
    /\ pc = "trim_final"
    /\ setParam(Dev, "REF.TRIM.FINAL", current_set)
    /\ Goto(proc, "check_current")
    /\ UNCHANGED <<cli, elog, locals, params>>

dipole_turn_on_check_current ==
    /\ proc = "dipole_turn_on"
    /\ pc = "check_current"
    /\ getParam(Dev, "REF.TRIM.FINAL", Opaque)
    /\ Goto(proc, "check_ramp")
    /\ UNCHANGED <<cli, elog, locals, params>>

\* the procedure without the read-back of REF.TRIM.DURATION
dipole_turn_on_check_ramp_missing ==
    /\ proc = "dipole_turn_on"
    /\ pc = "check_ramp"
    /\ Goto(proc, "check_state")
    /\ UNCHANGED <<cli, log, elog, locals, params>>

dipole_turn_on_check_ramp ==
    /\ proc = "dipole_turn_on"
    /\ pc = "check_ramp"
    /\ getParam(Dev, "REF.TRIM.DURATION", Opaque)
    /\ Goto(proc, "check_state")
    /\ UNCHANGED <<cli, elog, locals, params>>

(***************************************************************************)
(* quadrupole_turn_on / change_current: display array, logbook, PLEP       *)
(***************************************************************************)
DisplayRead  == "ValueAcquisition#floatValue"
DisplayWrite == "ValueSettings#floatValue"

\* the setpoint stored one entry too low
store_setpoint_off_by_one(vec, value) ==
    [vec EXCEPT ![SetpointIndex - 1] = value]

\* var_vec[67] = current_set
store_setpoint(vec, value) ==
    [vec EXCEPT ![SetpointIndex] = value]

setpoint_var_vec(name, here) ==
    /\ proc = name
    /\ pc = here
    /\ current_set' = current
    /\ \E arr \in DisplayArrays :
         /\ getParam(DisplayDev, DisplayRead, arr)
         /\ var_vec' = arr
    /\ Goto(name, "value_settings")
    /\ UNCHANGED <<cli, elog, pc_status, check_state, ramp_duration_set, plot, params>>

setpoint_value_settings(name) ==
    /\ proc = name
    /\ pc = "value_settings"
    /\ var_vec' = store_setpoint(var_vec, current_set)
    /\ setParam(DisplayDev, DisplayWrite, var_vec')
    /\ Goto(name, "create_event")
    /\ UNCHANGED <<cli, elog, pc_status, check_state, current_set, ramp_duration_set, plot, params>>

\* the setpoint step without its logbook entry
setpoint_create_event_missing(name) ==
    /\ proc = name
    /\ pc = "create_event"
    /\ Goto(name, "plep_final")
    /\ UNCHANGED <<cli, log, elog, locals, params>>

setpoint_create_event(name) ==
    /\ proc = name
    /\ pc = "create_event"
    /\ elog' = Append(elog, current_set)
    /\ Goto(name, "plep_final")
    /\ UNCHANGED <<cli, log, locals, params>>

setpoint_plep_final(name) ==
    /\ proc = name
    /\ pc = "plep_final"
    /\ setParam(Dev, "REF.PLEP.FINAL", current_set)
    /\ Goto(name, "check_current")
    /\ UNCHANGED <<cli, elog, locals, params>>

setpoint_check_current(name) ==
    /\ proc = name
    /\ pc = "check_current"
    /\ getParam(Dev, "REF.PLEP.FINAL", Opaque)
    /\ Goto(name, "func_type")
    /\ UNCHANGED <<cli, elog, locals, params>>

setpoint_func_type(name) ==
    /\ proc = name
    /\ pc = "func_type"
    /\ setParam(Dev, "REF.FUNC.TYPE", "PLEP")
    /\ Goto(name, "func_type_readback")
    /\ UNCHANGED <<cli, elog, locals, params>>

setpoint_func_type_readback(name) ==
    /\ proc = name
    /\ pc = "func_type_readback"
    /\ getParam(Dev, "REF.FUNC.TYPE", Opaque)
    /\ Goto(name, "check_state")
    /\ UNCHANGED <<cli, elog, locals, params>>

quadrupole_turn_on_var_vec            == setpoint_var_vec("quadrupole_turn_on", "var_vec")
quadrupole_turn_on_value_settings     == setpoint_value_settings("quadrupole_turn_on")
quadrupole_turn_on_create_event       == setpoint_create_event("quadrupole_turn_on")
quadrupole_turn_on_plep_final         == setpoint_plep_final("quadrupole_turn_on")
quadrupole_turn_on_check_current      == setpoint_check_current("quadrupole_turn_on")
quadrupole_turn_on_func_type          == setpoint_func_type("quadrupole_turn_on")
quadrupole_turn_on_func_type_readback == setpoint_func_type_readback("quadrupole_turn_on")

change_current_var_vec            == setpoint_var_vec("change_current", "begin")
change_current_value_settings     == setpoint_value_settings("change_current")
change_current_create_event       == setpoint_create_event("change_current")
change_current_plep_final         == setpoint_plep_final("change_current")
\* change_current without the read-back of REF.PLEP.FINAL
change_current_check_current_missing ==
    /\ proc = "change_current"
    /\ pc = "check_current"
    /\ Goto(proc, "func_type")
    /\ UNCHANGED <<cli, log, elog, locals, params>>

change_current_check_current      == setpoint_check_current("change_current")
change_current_func_type          == setpoint_func_type("change_current")
change_current_func_type_readback == setpoint_func_type_readback("change_current")

(***************************************************************************)
(* The ARMED check, REF.RUN and the final reading, in all three procedures *)
(***************************************************************************)
\* the check made on the status read after the bring-up, not on the fresh one
armed_stale(status_first, status_checked) ==
    status_first.PC = "ARMED"

\* the condition of the if that guards REF.RUN
armed(status_first, status_checked) ==
    status_checked.PC = "ARMED"

run_check_state(name) ==
    /\ proc = name
    /\ pc = "check_state"
    /\ \E s \in PCStates :
         /\ getParam(Dev, "STATE", [PC |-> s])
         /\ check_state' = [PC |-> s]
    /\ Goto(name, "if_armed")
    /\ UNCHANGED <<cli, elog, pc_status, current_set, ramp_duration_set, var_vec, plot, params>>

\* the else branch without its return
run_if_armed_no_return(name) ==
    /\ proc = name
    /\ pc = "if_armed"
    /\ IF armed(pc_status, check_state)
       THEN /\ setParam(Dev, "REF.RUN", Num(1))
            /\ Goto(name, "check_run_state")
       ELSE /\ Goto(name, "current_test")
            /\ UNCHANGED log
    /\ UNCHANGED <<cli, elog, locals, params>>

run_if_armed(name) ==
    /\ proc = name
    /\ pc = "if_armed"
    /\ IF armed(pc_status, check_state)
       THEN /\ setParam(Dev, "REF.RUN", Num(1))
            /\ Goto(name, "check_run_state")
       ELSE /\ Finish("return 0")
            /\ UNCHANGED <<proc, log>>
    /\ UNCHANGED <<cli, elog, locals, params>>

run_check_run_state(name) ==
    /\ proc = name
    /\ pc = "check_run_state"
    /\ \E s \in PCStates : getParam(Dev, "STATE", [PC |-> s])
    /\ Goto(name, "current_test")
    /\ UNCHANGED <<cli, elog, locals, params>>

\* sleep(seconds) raises ValueError for a negative length
sleep_raises(seconds) == seconds.A < 0

\* the dipole sleeps ramp_duration_set, the quadrupole 3 seconds
run_current_test(name, seconds) ==
    /\ proc = name
    /\ pc = "current_test"
    /\ IF sleep_raises(seconds)
       THEN /\ Finish("ValueError")
            /\ UNCHANGED <<proc, log>>
       ELSE /\ getParam(Dev, "MEAS.I", Opaque)
            /\ Finish("return")
            /\ UNCHANGED proc
    /\ UNCHANGED <<cli, elog, locals, params>>

QuadrupoleSettle == 3

dipole_turn_on_check_state     == run_check_state("dipole_turn_on")
dipole_turn_on_if_armed        == run_if_armed("dipole_turn_on")
dipole_turn_on_check_run_state == run_check_run_state("dipole_turn_on")
dipole_turn_on_current_test    == run_current_test("dipole_turn_on", ramp_duration_set)

quadrupole_turn_on_check_state     == run_check_state("quadrupole_turn_on")
quadrupole_turn_on_if_armed        == run_if_armed("quadrupole_turn_on")
quadrupole_turn_on_check_run_state == run_check_run_state("quadrupole_turn_on")
quadrupole_turn_on_current_test    == run_current_test("quadrupole_turn_on", Num(QuadrupoleSettle))

change_current_check_state     == run_check_state("change_current")
change_current_if_armed        == run_if_armed("change_current")
change_current_check_run_state == run_check_run_state("change_current")
change_current_current_test    == run_current_test("change_current", Num(QuadrupoleSettle))

(***************************************************************************)
(* current_plot (the same in both scripts): 100 readings of MEAS.I and     *)
(* their mean.  The plot itself is left to matplotlib.                     *)
(***************************************************************************)
\* the number of readings taken
PlotSamples == 100

\* the reading MEAS.I returns at the t-th sample of signal k
Reading(k, t) == Num(((t * k) % 7) + k)

RECURSIVE SumA(_)
\* the sum of the readings, halves added pairwise
SumA(xs) ==
    IF xs = << >> THEN 0
    ELSE IF Len(xs) = 1 THEN xs[1].A
    ELSE LET h == Len(xs) \div 2
         IN  SumA(SubSeq(xs, 1, h)) + SumA(SubSeq(xs, h + 1, Len(xs)))

\* the mean taken without the first reading
mean_without_first(xs) ==
    LET total == SumA(Tail(xs))
        n     == Len(xs) - 1
        r0    == total % n
        q1    == (r0 * 10000) \div n
        r1    == (r0 * 10000) % n
        q2    == (r1 * 10000) \div n
    IN  [A   |-> total \div n,
         f8  |-> q1 * 10000 + q2,
         f17 |-> 0]

\* np.mean of whole-number readings, by long division; exact when the
\* length divides 10^8
mean(xs) ==
    LET total == SumA(xs)
        n     == Len(xs)
        r0    == total % n
        q1    == (r0 * 10000) \div n
        r1    == (r0 * 10000) % n
        q2    == (r1 * 10000) \div n
    IN  [A   |-> total \div n,
         f8  |-> q1 * 10000 + q2,
         f17 |-> 0]

current_plot_begin ==
    /\ proc = "current_plot"
    /\ pc = "begin"
    /\ timesteps' = 1
    /\ current_array' = << >>
    /\ Goto(proc, "while")
    /\ UNCHANGED <<cli, log, elog, pc_status, check_state, current_set,
                   ramp_duration_set, var_vec, mean_val, params>>

\* the loop with < in place of <=
current_plot_while_one_short ==
    /\ proc = "current_plot"
    /\ pc = "while"
    /\ IF timesteps < PlotSamples
       THEN LET current_val == Reading(meas_signal, timesteps)
            IN  /\ getParam(Dev, "MEAS.I", current_val)
                /\ current_array' = Append(current_array, current_val)
                /\ timesteps' = timesteps + 1
                /\ Goto(proc, "while")
                /\ UNCHANGED mean_val
       ELSE /\ mean_val' = mean(current_array)
            /\ Finish("return")
            /\ UNCHANGED <<proc, log, timesteps, current_array>>
    /\ UNCHANGED <<cli, elog, pc_status, check_state, current_set,
                   ramp_duration_set, var_vec, params>>

current_plot_while ==
    /\ proc = "current_plot"
    /\ pc = "while"
    /\ IF timesteps <= PlotSamples
       THEN LET current_val == Reading(meas_signal, timesteps)
            IN  /\ getParam(Dev, "MEAS.I", current_val)
                /\ current_array' = Append(current_array, current_val)
                /\ timesteps' = timesteps + 1
                /\ Goto(proc, "while")
                /\ UNCHANGED mean_val
       ELSE /\ mean_val' = mean(current_array)
            /\ Finish("return")
            /\ UNCHANGED <<proc, log, timesteps, current_array>>
    /\ UNCHANGED <<cli, elog, pc_status, check_state, current_set,
                   ramp_duration_set, var_vec, params>>

current_plot_actions ==
    \/ current_plot_begin
    \/ current_plot_while

(***************************************************************************)
(* The scripts.                                                            *)
(***************************************************************************)
dipole_turn_off_actions ==
    \/ dipole_turn_off_check_state
    \/ dipole_turn_off_off
    \/ dipole_turn_off_pc_state

quadrupole_turn_off_actions ==
    \/ quadrupole_turn_off_check_state
    \/ quadrupole_turn_off_off
    \/ quadrupole_turn_off_pc_state

dipole_turn_on_actions ==
    \/ dipole_turn_on_pc_status
    \/ dipole_turn_on_off
    \/ dipole_turn_on_updated_status
    \/ dipole_turn_on_standby
    \/ dipole_turn_on_idle
    \/ dipole_turn_on_pc_status_idle
    \/ dipole_turn_on_func_type
    \/ dipole_turn_on_func_type_readback
    \/ dipole_turn_on_trim_duration
    \/ dipole_turn_on_trim_final
    \/ dipole_turn_on_check_current
    \/ dipole_turn_on_check_ramp
    \/ dipole_turn_on_check_state
    \/ dipole_turn_on_if_armed
    \/ dipole_turn_on_check_run_state
    \/ dipole_turn_on_current_test

quadrupole_turn_on_actions ==
    \/ quadrupole_turn_on_pc_status
    \/ quadrupole_turn_on_off
    \/ quadrupole_turn_on_updated_status
    \/ quadrupole_turn_on_standby
    \/ quadrupole_turn_on_idle
    \/ quadrupole_turn_on_pc_status_idle
    \/ quadrupole_turn_on_var_vec
    \/ quadrupole_turn_on_value_settings
    \/ quadrupole_turn_on_create_event
    \/ quadrupole_turn_on_plep_final
    \/ quadrupole_turn_on_check_current
    \/ quadrupole_turn_on_func_type
    \/ quadrupole_turn_on_func_type_readback
    \/ quadrupole_turn_on_check_state
    \/ quadrupole_turn_on_if_armed
    \/ quadrupole_turn_on_check_run_state
    \/ quadrupole_turn_on_current_test

change_current_actions ==
    \/ change_current_var_vec
    \/ change_current_value_settings
    \/ change_current_create_event
    \/ change_current_plep_final
    \/ change_current_check_current
    \/ change_current_func_type
    \/ change_current_func_type_readback
    \/ change_current_check_state
    \/ change_current_if_armed
    \/ change_current_check_run_state
    \/ change_current_current_test

Next ==
    \/ japc_login
    \/ parse_args
    \/ dipole_main
    \/ quadrupole_main
    \/ dipole_turn_off_actions
    \/ quadrupole_turn_off_actions
    \/ dipole_turn_on_actions
    \/ quadrupole_turn_on_actions
    \/ change_current_actions
    \/ current_plot_actions

Spec == Init /\ [][Next]_vars

(***************************************************************************)
(* The runs with --mode plot.  The script is one sequential process and    *)
(* its sleeps are finite, so a step that can be taken is taken.            *)
(***************************************************************************)
InitPlot ==
    /\ Init
    /\ argv.mode = "plot"

NextPlot ==
    \/ japc_login
    \/ parse_args
    \/ dipole_main
    \/ quadrupole_main
    \/ current_plot_begin
    \/ current_plot_while

SpecPlot == InitPlot /\ [][NextPlot]_vars /\ WF_vars(NextPlot)

(***************************************************************************)
(* energy_to_current on its own, for every energy 0 .. MaxEnergy.          *)
(***************************************************************************)
InitEnergy ==
    /\ script = "quadrupole"
    /\ argv = NoArguments
    /\ arguments = NoArguments
    /\ session = TRUE
    /\ proc = "energy_to_current"
    /\ pc = "begin"
    /\ outcome = "running"
    /\ log = << >>
    /\ elog = << >>
    /\ pc_status = NoState
    /\ check_state = NoState
    /\ current_set = NoNum
    /\ ramp_duration_set = NoNum
    /\ var_vec = NoVec
    /\ energy \in { Num(e) : e \in 0 .. MaxEnergy }
    /\ current = NoNum
    /\ ramp_duration = NoNum
    /\ calls = <<"energy_to_current">>
    /\ meas_signal = 0
    /\ timesteps = 0
    /\ current_array = << >>
    /\ mean_val = NoNum

energy_to_current_call ==
    /\ proc = "energy_to_current"
    /\ pc = "begin"
    /\ current' = energy_to_current(energy.A)
    /\ Finish("return")
    /\ UNCHANGED <<cli, proc, log, elog, locals, energy, ramp_duration, calls>>

NextEnergy == energy_to_current_call

SpecEnergy == InitEnergy /\ [][NextEnergy]_vars

(***************************************************************************)
(* Vocabulary of the properties.                                           *)
(***************************************************************************)
IsSet(e, field) == e.op = "setParam" /\ e.field = field
IsGet(e, field) == e.op = "getParam" /\ e.field = field

Writes == { i \in 1 .. Len(log) : log[i].op = "setParam" }
Reads  == { i \in 1 .. Len(log) : log[i].op = "getParam" }

WritesOf(field) == { i \in 1 .. Len(log) : IsSet(log[i], field) }
ReadsOf(field)  == { i \in 1 .. Len(log) : IsGet(log[i], field) }

RunProcs == {"dipole_turn_on", "quadrupole_turn_on", "change_current"}
OffProcs == {"dipole_turn_off", "quadrupole_turn_off"}

(***************************************************************************)
(* C1.  In dipole_turn_on, quadrupole_turn_on and change_current a write   *)
(* of REF.RUN is issued only directly after a read of STATE that returned  *)
(* PC = 'ARMED': the call before the write is that read, so no other read  *)
(* or write lies between them and no earlier STATE value authorises RUN.   *)
(***************************************************************************)
RunOnlyAfterArmedRead ==
    \A i \in WritesOf("REF.RUN") :
        /\ proc \in RunProcs
        /\ i > 1
        /\ IsGet(log[i - 1], "STATE")
        /\ log[i - 1].dev = log[i].dev
        /\ log[i - 1].val.PC = "ARMED"

\* REF.RUN was written in a dipole turn-on whose earlier STATE read was not ARMED
RunAfterStaleNotArmed ==
    /\ proc = "dipole_turn_on"
    /\ WritesOf("REF.RUN") # {}
    /\ pc_status.PC # "ARMED"

(***************************************************************************)
(* C2.  dipole_turn_off and quadrupole_turn_off, when the STATE read       *)
(* returns PC = 'OFF', return after that one read and no write.            *)
(***************************************************************************)
TurnOffAlreadyOffIsReadOnly ==
    (proc \in OffProcs /\ check_state.PC = "OFF") =>
        /\ pc = "done"
        /\ outcome = "return"
        /\ Writes = {}
        /\ Len(log) = 1
        /\ IsGet(log[1], "STATE")

\* a turn-off that found the converter OFF
TurnOffFoundOff ==
    /\ proc = "quadrupole_turn_off"
    /\ check_state.PC = "OFF"
    /\ pc = "done"

(***************************************************************************)
(* C3.  Dipole command line with --mode on: when --current or              *)
(* --ramp_duration is omitted the run ends in a usage error, before any    *)
(* device read or write and without calling dipole_turn_on.  (Values that  *)
(* are supplied are numeric.)                                              *)
(***************************************************************************)
DipoleOnRequiresCurrentAndRamp ==
    ( /\ script = "dipole"
      /\ argv.mode = "on"
      /\ argv.current = None \/ argv.ramp_duration = None
      /\ argv.current # Text /\ argv.ramp_duration # Text ) =>
        /\ log = << >>
        /\ \A i \in 1 .. Len(calls) : calls[i] # "dipole_turn_on"
        /\ pc = "done" => outcome = "usage_error"

ClaimedQuadratic(E) ==
    LET S  == E * E
        sh == S \div 10000
        sl == S % 10000
        H  == 2974 * sh + 2647 * E
        L  == 2974 * sl
        Hn == H + (L \div 10000)
    IN  [A |-> Hn \div 10000, f8 |-> (Hn % 10000) * 10000 + (L % 10000), f17 |-> 3565]

EnergyToCurrentIsClampedQuadratic ==
    (proc = "energy_to_current" /\ pc = "done" /\ energy.A >= 0) =>
        /\ NumLE(current, Num(362))
        /\ NumLE(ClaimedQuadratic(energy.A), Num(362)) => current = ClaimedQuadratic(energy.A)
        /\ NumGT(ClaimedQuadratic(energy.A), Num(362)) => current = Num(362)

\* an energy whose quadratic exceeds 362 was converted
EnergyWasClamped ==
    /\ proc = "energy_to_current"
    /\ pc = "done"
    /\ NumGT(ClaimedQuadratic(energy.A), Num(362))
    /\ current = Num(362)

\* 400 GeV gives 110.6384 A and a bit
Energy400 ==
    /\ proc = "energy_to_current"
    /\ pc = "done"
    /\ energy = Num(400)
    /\ current = [A |-> 110, f8 |-> 63840000, f17 |-> 3565]

(***************************************************************************)
(* C6.  In dipole_turn_on, quadrupole_turn_on and change_current, when the *)
(* STATE read at the decision point returns a PC other than 'ARMED', the   *)
(* procedure returns 0 and issues no further device call: that read stays  *)
(* the last call, REF.RUN is never written and MEAS.I is never read.       *)
(***************************************************************************)
NotArmedReturnsWithoutFurtherCalls ==
    (proc \in RunProcs /\ check_state # NoState /\ check_state.PC # "ARMED") =>
        /\ pc \in {"if_armed", "done"}
        /\ pc = "done" => outcome = "return 0"
        /\ IsGet(log[Len(log)], "STATE")
        /\ log[Len(log)].val = check_state
        /\ WritesOf("REF.RUN") = {}
        /\ ReadsOf("MEAS.I") = {}
        /\ Len(log) > 1 => ~IsGet(log[Len(log) - 1], "STATE")

\* change_current returned 0 because the converter was not ARMED
ChangeCurrentNotArmed ==
    /\ proc = "change_current"
    /\ pc = "done"
    /\ outcome = "return 0"
    /\ check_state.PC = "IDLE"

(***************************************************************************)
(* C7.  Quadrupole command line with --mode on or --mode change and        *)
(* neither --current nor --energy: the run ends in a parser usage error    *)
(* and no device write is issued.                                          *)
(***************************************************************************)
QuadrupoleMissingValueIsUsageError ==
    ( /\ script = "quadrupole"
      /\ argv.mode \in {"on", "change"}
      /\ argv.current = None
      /\ argv.energy = None ) =>
        /\ Writes = {}
        /\ pc = "done" => outcome = "usage_error"

(***************************************************************************)
(* C8.  change_current issues the calls quadrupole_turn_on issues from its *)
(* setpoint step onward: display-array read and write, REF.PLEP.FINAL      *)
(* write and read-back, REF.FUNC.TYPE write and read-back, STATE read,     *)
(* REF.RUN when ARMED, and then the final reads; change_current never      *)
(* writes MODE.PC.                                                         *)
(***************************************************************************)
Call3(e) == <<e.op, e.dev, e.field>>

\* the calls from the setpoint step onward, as far as the run has come
SetpointCalls(isArmed) ==
    << <<"getParam", DisplayDev, "ValueAcquisition#floatValue">>,
       <<"setParam", DisplayDev, "ValueSettings#floatValue">>,
       <<"setParam", QuadDev, "REF.PLEP.FINAL">>,
       <<"getParam", QuadDev, "REF.PLEP.FINAL">>,
       <<"setParam", QuadDev, "REF.FUNC.TYPE">>,
       <<"getParam", QuadDev, "REF.FUNC.TYPE">>,
       <<"getParam", QuadDev, "STATE">> >>
    \o IF isArmed
       THEN << <<"setParam", QuadDev, "REF.RUN">>,
               <<"getParam", QuadDev, "STATE">>,
               <<"getParam", QuadDev, "MEAS.I">> >>
       ELSE << >>

\* the calls of the run from call number first on
CallsFrom(first) == [i \in 1 .. (Len(log) + 1 - first) |-> Call3(log[i + first - 1])]

\* the written values from call number first on: array, setpoint, function type
ValuesFrom(first) ==
    /\ log[first + 1].val[67] = current
    /\ log[first + 2].val = current
    /\ log[first + 4].val = "PLEP"

\* the call after the bring-up of quadrupole_turn_on: none, OFF or not
AfterBringUp ==
    IF IsSet(log[2], "MODE.PC") /\ log[2].val = "OFF" THEN 7 ELSE 5

ChangeCurrentIsTurnOnTail ==
    /\ proc = "change_current" =>
          \A i \in WritesOf("MODE.PC") : FALSE
    /\ (proc = "change_current" /\ pc = "done") =>
          /\ CallsFrom(1) = SetpointCalls(check_state.PC = "ARMED")
          /\ ValuesFrom(1)
    /\ (proc = "quadrupole_turn_on" /\ pc = "done") =>
          /\ CallsFrom(AfterBringUp) = SetpointCalls(check_state.PC = "ARMED")
          /\ ValuesFrom(AfterBringUp)
          /\ \A i \in WritesOf("MODE.PC") : i < AfterBringUp

\* change_current ran to the end on an ARMED converter
ChangeCurrentRan ==
    /\ proc = "change_current"
    /\ pc = "done"
    /\ outcome = "return"
    /\ Len(log) = 10

(***************************************************************************)
(* C9.  Every target current written to a power converter                  *)
(* (REF.TRIM.FINAL, REF.PLEP.FINAL) is >= 0 and every ramp duration        *)
(* written to REF.TRIM.DURATION is > 0.                                    *)
(***************************************************************************)
WrittenTrimValuesInRange ==
    /\ \A i \in WritesOf("REF.TRIM.FINAL") : NumLE(Num(0), log[i].val)
    /\ \A i \in WritesOf("REF.PLEP.FINAL") : NumLE(Num(0), log[i].val)
    /\ \A i \in WritesOf("REF.TRIM.DURATION") : NumGT(log[i].val, Num(0))

(***************************************************************************)
(* C10.  The display array change_current (and quadrupole_turn_on) writes  *)
(* differs from the array it read only at index 67, which holds the new    *)
(* setpoint; every other entry is written back as read.                    *)
(***************************************************************************)
DisplayArrayChangedOnlyAt67 ==
    \A i \in WritesOf("ValueSettings#floatValue") :
        /\ i > 1
        /\ IsGet(log[i - 1], "ValueAcquisition#floatValue")
        /\ DOMAIN log[i].val = DOMAIN log[i - 1].val
        /\ 67 \in DOMAIN log[i].val
        /\ log[i].val[67] = current
        /\ \A j \in DOMAIN log[i].val : j # 67 => log[i].val[j] = log[i - 1].val[j]

\* change_current wrote an array whose entry 67 and a later entry were not
\* zero when read
DisplayArrayWritten ==
    /\ proc = "change_current"
    /\ \E i \in WritesOf("ValueSettings#floatValue") :
         /\ log[i - 1].val[67] # Num(0)
         /\ log[i - 1].val[67] # log[i].val[67]
         /\ log[i - 1].val[68] # Num(0)

(***************************************************************************)
(* C11.  current_plot (both scripts) terminates after exactly 100 reads of *)
(* MEAS.I and no write, and the series it built holds the 100 readings in  *)
(* the order they were read.                                               *)
(***************************************************************************)
PlotDoneAfter100Reads ==
    /\ pc = "done"
    /\ outcome = "return"
    /\ Len(log) = 100
    /\ \A i \in 1 .. Len(log) : IsGet(log[i], "MEAS.I") /\ log[i].dev = Dev
    /\ Len(current_array) = 100
    /\ \A i \in 1 .. 100 : current_array[i] = log[i].val

CurrentPlotTerminatesAfter100Reads ==
    (proc = "current_plot") ~> PlotDoneAfter100Reads

\* the dipole plot has taken its last reading of a signal that varies
DipolePlotTookLastReading ==
    /\ script = "dipole"
    /\ proc = "current_plot"
    /\ Len(log) = 100
    /\ log[99].val # log[100].val

(***************************************************************************)
(* C12.  The mean current_plot computes is the arithmetic mean of exactly  *)
(* the 100 readings the device returned: 100 times the mean is their sum.  *)
(***************************************************************************)
\* how many of the first n calls of the run returned v
TimesRead(v, n) == Cardinality({ i \in 1 .. n : log[i].val.A = v })

RECURSIVE WeightedSum(_, _)
\* the sum over the values in vs of value times TimesRead
WeightedSum(vs, n) ==
    IF vs = {} THEN 0
    ELSE LET v == CHOOSE x \in vs : TRUE
         IN  v * TimesRead(v, n) + WeightedSum(vs \ {v}, n)

\* the sum of the values of the first n calls of the run
ReadingsSum(n) == WeightedSum({ log[i].val.A : i \in 1 .. n }, n)

MeanIsMeanOfReadings ==
    (proc = "current_plot" /\ pc = "done") =>
        /\ Len(log) = 100
        /\ mean_val.f17 = 0
        /\ mean_val.f8 % 1000000 = 0
        /\ mean_val.A * 100 + (mean_val.f8 \div 1000000) = ReadingsSum(100)

\* a mean that is not a whole number was computed
FractionalMeanComputed ==
    /\ proc = "current_plot"
    /\ pc = "done"
    /\ mean_val.f8 # 0
    /\ mean_val.A > 0

(***************************************************************************)
(* C13.  In both turn-on procedures the trim values (dipole:               *)
(* REF.TRIM.DURATION and REF.TRIM.FINAL; quadrupole: REF.PLEP.FINAL) are   *)
(* written and read back before REF.FUNC.TYPE is written, and both precede *)
(* the ARMED check.                                                        *)
(***************************************************************************)
TurnOnProcs == {"dipole_turn_on", "quadrupole_turn_on"}

TrimFields ==
    IF script = "dipole" THEN {"REF.TRIM.DURATION", "REF.TRIM.FINAL"} ELSE {"REF.PLEP.FINAL"}

\* field x was written and then read back, both before call number i
WrittenAndReadBackBefore(x, i) ==
    \E w \in WritesOf(x) : \E r \in ReadsOf(x) : w < r /\ r < i

\* the call number of the STATE read the ARMED check is made on
CheckRead ==
    CHOOSE d \in ReadsOf("STATE") :
        /\ d > 1
        /\ ~IsSet(log[d - 1], "REF.RUN")
        /\ \A e \in ReadsOf("STATE") : e <= d \/ IsSet(log[e - 1], "REF.RUN")

TrimBeforeFunctionTypeBeforeCheck ==
    proc \in TurnOnProcs =>
        /\ \A f \in WritesOf("REF.FUNC.TYPE") :
              \A x \in TrimFields : WrittenAndReadBackBefore(x, f)
        /\ check_state # NoState =>
              /\ \A x \in TrimFields : WrittenAndReadBackBefore(x, CheckRead)
              /\ \E f \in WritesOf("REF.FUNC.TYPE") : f < CheckRead

(***************************************************************************)
(* C13, amended.  In quadrupole_turn_on REF.PLEP.FINAL is written and read *)
(* back before REF.FUNC.TYPE is written; in dipole_turn_on REF.FUNC.TYPE   *)
(* is written and read back before REF.TRIM.DURATION and REF.TRIM.FINAL    *)
(* are written, and these are read back after both are written.  In both   *)
(* procedures all of this precedes the STATE read of the ARMED check.      *)
(***************************************************************************)
TrimAndFunctionTypeBeforeCheck ==
    proc \in TurnOnProcs =>
        /\ script = "quadrupole" =>
              \A f \in WritesOf("REF.FUNC.TYPE") :
                  WrittenAndReadBackBefore("REF.PLEP.FINAL", f)
        /\ script = "dipole" =>
              \A x \in TrimFields :
                  /\ \A w \in WritesOf(x) : WrittenAndReadBackBefore("REF.FUNC.TYPE", w)
                  /\ \A r \in ReadsOf(x) : \A y \in TrimFields : \E w \in WritesOf(y) : w < r
        /\ check_state # NoState =>
              /\ log[CheckRead].val = check_state
              /\ \A x \in TrimFields : WrittenAndReadBackBefore(x, CheckRead)
              /\ WrittenAndReadBackBefore("REF.FUNC.TYPE", CheckRead)

\* a dipole turn-on has made its ARMED check
DipoleTurnOnChecked ==
    /\ proc = "dipole_turn_on"
    /\ check_state.PC = "ARMED"
    /\ pc = "done"
    /\ outcome = "return"

(***************************************************************************)
(* C14.  In dipole_turn_on and quadrupole_turn_on the writes to MODE.PC    *)
(* come in a fixed order before any other write: 'OFF' first when the      *)
(* first STATE read is not 'OFF', no 'OFF' when it is; then 'ON_STANDBY'   *)
(* directly followed by 'IDLE', whatever states the converter reports.     *)
(***************************************************************************)
IsModeWrite(e) == IsSet(e, "MODE.PC")

\* the values written to MODE.PC, in order
ModeValues ==
    LET sel == SelectSeq(log, IsModeWrite)
    IN  [i \in 1 .. Len(sel) |-> sel[i].val]

BringUpValues ==
    IF log[1].val.PC # "OFF" THEN <<"OFF", "ON_STANDBY", "IDLE">> ELSE <<"ON_STANDBY", "IDLE">>

IsPrefix(a, b) == Len(a) <= Len(b) /\ \A i \in 1 .. Len(a) : a[i] = b[i]

BringUpWritesInOrder ==
    (proc \in TurnOnProcs /\ log # << >>) =>
        /\ IsGet(log[1], "STATE")
        /\ IsPrefix(ModeValues, BringUpValues)
        /\ Len(log) >= 2 =>
              /\ IsModeWrite(log[2])
              /\ log[2].val = BringUpValues[1]
        /\ \A i \in Writes :
              ~IsModeWrite(log[i]) =>
                  /\ ModeValues = BringUpValues
                  /\ \A j \in WritesOf("MODE.PC") : j < i
        /\ \A k \in WritesOf("MODE.PC") :
              (log[k].val = "ON_STANDBY" /\ Len(log) > k) =>
                  /\ IsModeWrite(log[k + 1])
                  /\ log[k + 1].val = "IDLE"
        /\ pc = "done" => ModeValues = BringUpValues

\* a quadrupole turn-on that found the converter OFF and later saw it RUNNING
BringUpFromOff ==
    /\ proc = "quadrupole_turn_on"
    /\ pc = "done"
    /\ log[1].val.PC = "OFF"
    /\ pc_status.PC = "RUNNING"
    /\ ModeValues = <<"ON_STANDBY", "IDLE">>

(***************************************************************************)
(* C15.  dipole_turn_off and quadrupole_turn_off, when the STATE read is   *)
(* not 'OFF', issue one write, MODE.PC = 'OFF', then one STATE read, and   *)
(* return whatever that read returns: no second OFF command, no loop.      *)
(***************************************************************************)
TurnOffWritesOnceReadsOnce ==
    (proc \in OffProcs /\ check_state # NoState /\ check_state.PC # "OFF") =>
        /\ Len(log) <= 3
        /\ IsGet(log[1], "STATE")
        /\ log[1].val = check_state
        /\ Len(log) >= 2 =>
              /\ IsModeWrite(log[2])
              /\ log[2].val = "OFF"
              /\ log[2].dev = Dev
        /\ Len(log) = 3 =>
              /\ IsGet(log[3], "STATE")
              /\ pc = "done"
              /\ outcome = "return"
        /\ pc = "done" => Len(log) = 3

\* a turn-off returned although the converter still reported RUNNING
TurnOffReturnedNotOff ==
    /\ proc = "dipole_turn_off"
    /\ pc = "done"
    /\ Len(log) = 3
    /\ log[3].val.PC = "RUNNING"

(***************************************************************************)
(* C16.  In both command-line entry points the turn-on procedure is called *)
(* only when --mode is 'on', and a run without --mode issues no device     *)
(* write.                                                                  *)
(***************************************************************************)
TurnOnOnlyInModeOn ==
    /\ \A i \in 1 .. Len(calls) : calls[i] \in TurnOnProcs => argv.mode = "on"
    /\ argv.mode = "None" => Writes = {}

(***************************************************************************)
(* C17.  In change_current and quadrupole_turn_on the display-array write  *)
(* and the logbook event are issued exactly once, unconditionally, before  *)
(* the REF.PLEP.FINAL write and the ARMED check; a run that returns as not *)
(* ARMED has recorded the setpoint in the array and the logbook and has    *)
(* left REF.PLEP.FINAL and REF.FUNC.TYPE written.                          *)
(***************************************************************************)
SetpointProcs == {"quadrupole_turn_on", "change_current"}

SetpointRecordedBeforeCheck ==
    proc \in SetpointProcs =>
        /\ Cardinality(WritesOf("ValueSettings#floatValue")) <= 1
        /\ Len(elog) <= 1
        /\ \A w \in WritesOf("REF.PLEP.FINAL") :
              /\ \E a \in WritesOf("ValueSettings#floatValue") : a < w
              /\ Len(elog) = 1
        /\ check_state # NoState =>
              /\ \E a \in WritesOf("ValueSettings#floatValue") :
                    /\ a < CheckRead
                    /\ log[a].val[67] = current
              /\ elog = <<current>>
              /\ \E w \in WritesOf("REF.PLEP.FINAL") : w < CheckRead /\ log[w].val = current
              /\ \E f \in WritesOf("REF.FUNC.TYPE") : f < CheckRead /\ log[f].val = "PLEP"
        /\ (pc = "done" /\ outcome = "return 0") =>
              /\ Cardinality(WritesOf("ValueSettings#floatValue")) = 1
              /\ Cardinality(WritesOf("REF.PLEP.FINAL")) = 1
              /\ Cardinality(WritesOf("REF.FUNC.TYPE")) = 1
              /\ Writes = WritesOf("ValueSettings#floatValue") \cup WritesOf("REF.PLEP.FINAL")
                            \cup WritesOf("REF.FUNC.TYPE") \cup WritesOf("MODE.PC")

\* a quadrupole turn-on to 362 A returned as not ARMED with the setpoint recorded
TurnOnAbortedSetpointRecorded ==
    /\ proc = "quadrupole_turn_on"
    /\ pc = "done"
    /\ outcome = "return 0"
    /\ elog = <<Num(362)>>
    /\ \E w \in WritesOf("REF.PLEP.FINAL") : log[w].val = Num(362)

(***************************************************************************)
(* C18.  Quadrupole command line with --mode on or --mode change and both  *)
(* --current and --energy: --energy is ignored, energy_to_current is not   *)
(* called, and the value written to REF.PLEP.FINAL is min(current, 362).   *)
(***************************************************************************)
Min(a, b) == IF a <= b THEN a ELSE b

CurrentWinsOverEnergy ==
    ( /\ script = "quadrupole"
      /\ argv.mode \in {"on", "change"}
      /\ argv.current # None
      /\ argv.energy # None ) =>
        /\ \A i \in 1 .. Len(calls) : calls[i] # "energy_to_current"
        /\ energy = NoNum
        /\ \A w \in WritesOf("REF.PLEP.FINAL") : log[w].val = Num(Min(argv.current.n, 362))

\* --current 100 was written although --energy 1300 was given as well
Wrote100DespiteEnergy ==
    /\ script = "quadrupole"
    /\ argv.mode = "on"
    /\ argv.current = Literal(100)
    /\ argv.energy = Literal(1300)
    /\ \E w \in WritesOf("REF.PLEP.FINAL") : log[w].val = Num(100)

====
